---- MODULE Spec2Model ----
(***************************************************************************)
(* JEE Main College Predictor (ranpredictor.py) and the College Rank       *)
(* Comparison Tool's normaliser (rankingtool.py).                          *)
(*                                                                         *)
(* Tables are pandas DataFrames: a set of column labels and a sequence of  *)
(* rows, each row carrying its index label and one cell per column.  A     *)
(* cell is NaN, a number, or a string (a sequence of characters).          *)
(***************************************************************************)
EXTENDS Integers, Sequences, FiniteSets, TLC

VARIABLES
    pc,        \* where the running script is
    heap,      \* the DataFrame objects alive in the script, by reference
    loaded,    \* the table load_data returned when it was memoized
    passedIn,  \* the table main handed to classify_colleges, as handed over
    call       \* the arguments and the result of the last function call

vars == <<pc, heap, loaded, passedIn, call>>

(* ------------------------------ bounds -------------------------------- *)

\* ranks (user rank, opening rank, closing rank) range over 1..MaxRank
MaxRank == 3

\* rows of a table handed to classify_colleges directly
MaxRows == 1

\* rows of a table handed to filter_courses directly
MaxCourseRows == 2

\* rows of a sheet handed to preprocess_dataframe directly
MaxSheetRows == 2

\* rows of each spreadsheet read by load_data
MaxFileRows == 1

(* ------------------------------- cells -------------------------------- *)

NaN == [k |-> "nan", v |-> 0, s |-> <<>>]
Num(n) == [k |-> "num", v |-> n, s |-> <<>>]
Str(chars) == [k |-> "str", v |-> 0, s |-> chars]

\* pd.notnull / pd.isnull on one cell
notnull(cell) == cell.k # "nan"

Digits == <<"0", "1", "2", "3", "4", "5", "6", "7", "8", "9">>

IsDigit(ch) == \E i \in 1..Len(Digits) : Digits[i] = ch

DigitValue(ch) == (CHOOSE i \in 1..Len(Digits) : Digits[i] = ch) - 1

RECURSIVE DecimalValue(_)
DecimalValue(chars) ==
    IF chars = <<>> THEN 0
    ELSE 10 * DecimalValue(SubSeq(chars, 1, Len(chars) - 1))
         + DigitValue(chars[Len(chars)])

\* pd.to_numeric(..., errors='coerce') on one cell: numbers stay, a string of
\* decimal digits is parsed, every other string and NaN become NaN.
to_numeric(cell) ==
    IF cell.k = "num" THEN cell
    ELSE IF cell.k = "str" /\ cell.s # <<>> /\ \A i \in 1..Len(cell.s) : IsDigit(cell.s[i])
         THEN Num(DecimalValue(cell.s))
    ELSE NaN

(* ------------------------ calculate_chances --------------------------- *)

Returned(n) == [exc |-> "none", value |-> n]
Raised(name) == [exc |-> name, value |-> 0]

\* int(x) of the quotient num / den: truncation towards zero
TruncDiv(num, den) ==
    IF (num >= 0) = (den > 0) THEN num \div den ELSE -((-num) \div den)

\* int(10 + 80 * (closing - user) / (closing - opening)); a zero divisor raises
Interpolate(user_rank, opening_rank, closing_rank) ==
    IF closing_rank - opening_rank = 0
    THEN Raised("ZeroDivisionError")
    ELSE Returned(TruncDiv(10 * (closing_rank - opening_rank)
                             + 80 * (closing_rank - user_rank),
                           closing_rank - opening_rank))

\* mutants of calculate_chances
calculate_chances_uncapped(user_rank, opening_rank, closing_rank) ==
    IF user_rank <= opening_rank THEN Returned(100)
    ELSE IF user_rank > closing_rank THEN Returned(0)
    ELSE Interpolate(user_rank, opening_rank, closing_rank)

calculate_chances_strict(user_rank, opening_rank, closing_rank) ==
    IF user_rank < opening_rank THEN Returned(90)
    ELSE IF user_rank > closing_rank THEN Returned(10)
    ELSE Interpolate(user_rank, opening_rank, closing_rank)

calculate_chances_rising(user_rank, opening_rank, closing_rank) ==
    IF user_rank <= opening_rank THEN Returned(90)
    ELSE IF user_rank > closing_rank THEN Returned(10)
    ELSE Interpolate(closing_rank + opening_rank - user_rank, opening_rank, closing_rank)

calculate_chances(user_rank, opening_rank, closing_rank) ==
    IF user_rank <= opening_rank THEN Returned(90)
    ELSE IF user_rank > closing_rank THEN Returned(10)
    ELSE Interpolate(user_rank, opening_rank, closing_rank)

\* mutant of calculate_deviation: the sign convention reversed
calculate_deviation_reversed(user_rank, closing_rank) == closing_rank - user_rank

calculate_deviation(user_rank, closing_rank) == user_rank - closing_rank

(* ------------------------------ tables -------------------------------- *)

\* a DataFrame: column labels, and rows that keep their index label
DataFrame(columns, rows) == [columns |-> columns, rows |-> rows]

Row(idx, cells) == [idx |-> idx, cells |-> cells]

\* the DataFrame bound to a name that holds nothing yet
NoTable == DataFrame({}, <<>>)

\* df.empty
empty(df) == df.columns = {} \/ df.rows = <<>>

\* df.loc[:, keep]: the same rows with the columns of keep only
SelectColumns(df, keep) ==
    DataFrame(keep,
              [i \in 1..Len(df.rows) |->
                  Row(df.rows[i].idx, [c \in keep |-> df.rows[i].cells[c]])])

\* df[label]: the cells of one column, row by row
Series(df, label) == [i \in 1..Len(df.rows) |-> df.rows[i].cells[label]]

\* the first n rows that a boolean mask keeps
RECURSIVE Take(_, _, _)
Take(rows, mask, n) ==
    IF n = 0 THEN <<>>
    ELSE IF mask[n] THEN Append(Take(rows, mask, n - 1), rows[n])
    ELSE Take(rows, mask, n - 1)

\* df[mask]: a new DataFrame of the rows the mask keeps, index labels kept
BooleanIndex(df, mask) == DataFrame(df.columns, Take(df.rows, mask, Len(df.rows)))

\* df[label] = series: the column is added, or its cells are replaced
SetColumn(df, label, series) ==
    DataFrame(df.columns \cup {label},
              [i \in 1..Len(df.rows) |->
                  Row(df.rows[i].idx,
                      [c \in df.columns \cup {label} |->
                          IF c = label THEN series[i] ELSE df.rows[i].cells[c]])])

\* pd.to_numeric(series, errors='coerce')
to_numeric_series(series) == [i \in DOMAIN series |-> to_numeric(series[i])]

\* df.rename(columns=mapping): labels outside the mapping stay
RenameColumns(df, mapping) ==
    LET new(c) == IF c \in DOMAIN mapping THEN mapping[c] ELSE c
        old(n) == CHOOSE c \in df.columns : new(c) = n
        labels == {new(c) : c \in df.columns}
    IN  DataFrame(labels,
                  [i \in 1..Len(df.rows) |->
                      Row(df.rows[i].idx, [n \in labels |-> df.rows[i].cells[old(n)]])])

\* the columns holding no value at all (every column of a table without rows)
AllNaNColumns(df) ==
    {c \in df.columns : \A i \in 1..Len(df.rows) : ~notnull(df.rows[i].cells[c])}

\* the column labels that match the pattern '^Unnamed' (labels are atoms here;
\* of the labels of this model, these two start with "Unnamed")
UnnamedColumns(df) == df.columns \cap {"Unnamed: 0", "Unnamed: 7"}

(* ----------------------- preprocess_dataframe ------------------------- *)

CanonicalNames ==
    [c \in {"Institute", "Academic Program Name", "Quota", "Seat Type", "Gender",
            "Opening Rank", "Closing Rank"} |->
        IF c = "Institute" THEN "College Name"
        ELSE IF c = "Academic Program Name" THEN "Course Name"
        ELSE c]

\* what a call of preprocess_dataframe leaves: the exception it raised if
\* any, the table it returned, and its argument as the call left it (the
\* first dropna works in place)
Outcome(exc, df, arg) == [exc |-> exc, df |-> df, arg |-> arg]

\* ranpredictor.py
preprocess_dataframe(df) ==
    LET arg == SelectColumns(df, df.columns \ AllNaNColumns(df))
        named == SelectColumns(arg, arg.columns \ UnnamedColumns(arg))
        opening == SetColumn(named, "Opening Rank",
                             to_numeric_series(Series(named, "Opening Rank")))
        closing == SetColumn(opening, "Closing Rank",
                             to_numeric_series(Series(opening, "Closing Rank")))
        renamed == RenameColumns(closing, CanonicalNames)
        ranked == BooleanIndex(renamed,
                               [i \in 1..Len(renamed.rows) |->
                                   /\ notnull(renamed.rows[i].cells["Opening Rank"])
                                   /\ notnull(renamed.rows[i].cells["Closing Rank"])])
    IN  IF "Opening Rank" \notin named.columns THEN Outcome("KeyError", NoTable, arg)
        ELSE IF "Closing Rank" \notin named.columns THEN Outcome("KeyError", NoTable, arg)
        ELSE Outcome("none", ranked, arg)

\* rankingtool.py
preprocess_dataframe_rankingtool(df) ==
    LET arg == SelectColumns(df, df.columns \ AllNaNColumns(df))
        named == SelectColumns(arg, arg.columns \ UnnamedColumns(arg))
    IN  Outcome("none", RenameColumns(named, CanonicalNames), arg)

(* -------------------------- filter_courses ---------------------------- *)

UpperCase == <<"A", "B", "C", "D", "E", "F", "G", "H", "I", "J", "K", "L", "M",
               "N", "O", "P", "Q", "R", "S", "T", "U", "V", "W", "X", "Y", "Z">>

LowerCase == <<"a", "b", "c", "d", "e", "f", "g", "h", "i", "j", "k", "l", "m",
               "n", "o", "p", "q", "r", "s", "t", "u", "v", "w", "x", "y", "z">>

\* one character with its case folded, as re.IGNORECASE compares it
Fold(ch) ==
    IF \E i \in 1..Len(UpperCase) : UpperCase[i] = ch
    THEN LowerCase[CHOOSE i \in 1..Len(UpperCase) : UpperCase[i] = ch]
    ELSE ch

\* re.search of a literal token, case=False
ContainsToken(chars, token) ==
    \E start \in 1..(Len(chars) - Len(token) + 1) :
        \A j \in 1..Len(token) : Fold(chars[start + j - 1]) = Fold(token[j])

PLANNING == <<"p", "l", "a", "n", "n", "i", "n", "g">>
ARCHITECTURE == <<"a", "r", "c", "h", "i", "t", "e", "c", "t", "u", "r", "e">>
DESIGN == <<"d", "e", "s", "i", "g", "n">>

Tokens == {PLANNING, ARCHITECTURE, DESIGN}

\* Series.str.contains('planning|architecture|design', case=False, na=False)
\* on one cell: a cell that is no string gives NaN, which na=False makes False
str_contains(cell) ==
    IF cell.k = "str" THEN \E token \in Tokens : ContainsToken(cell.s, token)
    ELSE FALSE

\* mutants of filter_courses
filter_courses_case_sensitive(df, course_type) ==
    LET names == Series(df, "Course Name")
        hit == [i \in DOMAIN names |->
                   /\ names[i].k = "str"
                   /\ \E token \in Tokens :
                        \E start \in 1..(Len(names[i].s) - Len(token) + 1) :
                            SubSeq(names[i].s, start, start + Len(token) - 1) = token]
    IN  IF course_type = "B.Plan / B.Arch"
        THEN BooleanIndex(df, hit)
        ELSE BooleanIndex(df, [i \in DOMAIN hit |-> ~hit[i]])

filter_courses(df, course_type) ==
    LET names == Series(df, "Course Name")
        hit == [i \in DOMAIN names |-> str_contains(names[i])]
    IN  IF course_type = "B.Plan / B.Arch"
        THEN BooleanIndex(df, hit)
        ELSE BooleanIndex(df, [i \in DOMAIN hit |-> ~hit[i]])

(* ------------------------- classify_colleges -------------------------- *)

\* the names DataFrame objects are bound to while the script runs
Refs == {"cache", "df", "copy", "ambitious", "moderate", "safe", "result_df"}

NoHeap == [ref \in Refs |-> NoTable]

\* what a call returns when it makes a new object: the heap, and the name
\* the object is bound to
Object(h, ref) == [heap |-> h, ref |-> ref]

\* mutant of DataFrame_copy: no copy is made
DataFrame_alias(h, ref) == Object(h, ref)

\* df.copy(): a new object with the same contents
DataFrame_copy(h, ref) == Object([h EXCEPT !["copy"] = h[ref]], "copy")

\* series < n, series <= n, ... : a comparison with NaN is False
Lt(cell, n) == cell.k = "num" /\ cell.v < n
Le(cell, n) == cell.k = "num" /\ cell.v <= n
Gt(cell, n) == cell.k = "num" /\ cell.v > n
Ge(cell, n) == cell.k = "num" /\ cell.v >= n

\* series == value: NaN and None equal nothing
Eq(cell, value) == notnull(cell) /\ notnull(value) /\ cell = value

\* the lambda of the Chance column
ChanceOf(row, user_rank) ==
    IF notnull(row.cells["Opening Rank"]) /\ notnull(row.cells["Closing Rank"])
    THEN calculate_chances(user_rank, row.cells["Opening Rank"].v,
                           row.cells["Closing Rank"].v)
    ELSE Returned(0)

\* the lambda of the Deviation column
DeviationOf(row, user_rank) ==
    IF notnull(row.cells["Closing Rank"])
    THEN calculate_deviation(user_rank, row.cells["Closing Rank"].v)
    ELSE 0

\* the three masks
IsAmbitious(row, user_rank, quota, seat_type) ==
    /\ Lt(row.cells["Closing Rank"], user_rank)
    /\ Eq(row.cells["Quota"], quota)
    /\ Eq(row.cells["Seat Type"], seat_type)

IsModerate(row, user_rank, quota, seat_type) ==
    /\ Le(row.cells["Opening Rank"], user_rank)
    /\ Ge(row.cells["Closing Rank"], user_rank)
    /\ Eq(row.cells["Quota"], quota)
    /\ Eq(row.cells["Seat Type"], seat_type)

\* mutant of IsSafe: the opening rank itself counts as safe
IsSafe_inclusive(row, user_rank, quota, seat_type) ==
    /\ Ge(row.cells["Opening Rank"], user_rank)
    /\ Eq(row.cells["Quota"], quota)
    /\ Eq(row.cells["Seat Type"], seat_type)

IsSafe(row, user_rank, quota, seat_type) ==
    /\ Gt(row.cells["Opening Rank"], user_rank)
    /\ Eq(row.cells["Quota"], quota)
    /\ Eq(row.cells["Seat Type"], seat_type)

\* lines 69-70: the two rank columns of the argument are coerced in place
CoerceRanks(h, df) ==
    [h EXCEPT ![df] =
        SetColumn(SetColumn(h[df], "Opening Rank",
                            to_numeric_series(Series(h[df], "Opening Rank"))),
                  "Closing Rank", to_numeric_series(Series(h[df], "Closing Rank")))]

\* df.apply(<Chance lambda>, axis=1) and df.apply(<Deviation lambda>, axis=1)
ChanceResults(df, user_rank) == [i \in 1..Len(df.rows) |-> ChanceOf(df.rows[i], user_rank)]

DeviationSeries(df, user_rank) ==
    [i \in 1..Len(df.rows) |-> Num(DeviationOf(df.rows[i], user_rank))]

\* lines 76-88: the Chance and Deviation columns are added to the copy
AddDerived(h, work, user_rank) ==
    [h EXCEPT ![work] =
        SetColumn(SetColumn(h[work], "Chance",
                            [i \in 1..Len(h[work].rows) |->
                                Num(ChanceResults(h[work], user_rank)[i].value)]),
                  "Deviation", DeviationSeries(h[work], user_rank))]

\* lines 91-93: the three buckets are taken from the copy
TakeBuckets(h, work, user_rank, quota, seat_type) ==
    [h EXCEPT
        !["ambitious"] = BooleanIndex(h[work],
            [i \in 1..Len(h[work].rows) |->
                IsAmbitious(h[work].rows[i], user_rank, quota, seat_type)]),
        !["moderate"] = BooleanIndex(h[work],
            [i \in 1..Len(h[work].rows) |->
                IsModerate(h[work].rows[i], user_rank, quota, seat_type)]),
        !["safe"] = BooleanIndex(h[work],
            [i \in 1..Len(h[work].rows) |->
                IsSafe(h[work].rows[i], user_rank, quota, seat_type)])]

\* lines 76-95 on the copy just made: an exception of a lambda ends the call
ScoreAndSplit(made, user_rank, quota, seat_type) ==
    IF \E i \in 1..Len(made.heap[made.ref].rows) :
           ChanceResults(made.heap[made.ref], user_rank)[i].exc # "none"
    THEN [exc |-> "ZeroDivisionError", heap |-> made.heap]
    ELSE [exc |-> "none",
          heap |-> TakeBuckets(AddDerived(made.heap, made.ref, user_rank), made.ref,
                               user_rank, quota, seat_type)]

\* classify_colleges(df, ...) on the heap h, df being the name of its
\* argument: the heap it leaves, with the three buckets bound to "ambitious",
\* "moderate" and "safe", and the exception raised if any
classify_colleges(h, df, user_rank, quota, seat_type) ==
    ScoreAndSplit(DataFrame_copy(CoerceRanks(h, df), df), user_rank, quota, seat_type)

(* ------------------------- values of the cells ------------------------ *)

AI == Str(<<"A", "I">>)
HS == Str(<<"H", "S">>)
OPEN == Str(<<"O", "P", "E", "N">>)
OBC == Str(<<"O", "B", "C">>)
IIT == Str(<<"I", "I", "T">>)
FEMALE == Str(<<"F", "e", "m", "a", "l", "e">>)

\* quotas and seat types found in a sheet, and the ones a user may select
Quotas == {AI, HS}
SeatTypes == {OPEN}
SeatChoices == {OPEN, OBC}

\* a rank cell of a sheet: empty, a preparatory-list rank such as "2P" (no
\* number), a number kept as text, or a number
RankCells == {NaN, Str(<<"2", "P">>), Str(<<"2">>)} \cup {Num(n) : n \in 1..MaxRank}

\* course names that hold one of the three tokens in some letter case
ArchNames == {<<"A", "r", "c", "h", "i", "t", "e", "c", "t", "u", "r", "e">>,
              <<"B", ".", "P", "L", "A", "N", "N", "I", "N", "G">>,
              <<"F", "a", "s", "h", "i", "o", "n", " ", "D", "e", "s", "i", "g", "n">>,
              <<"T", "o", "w", "n", " ", "p", "l", "a", "n", "n", "i", "n", "g">>}

\* course names that hold none of them
TechNames == {<<"C", "i", "v", "i", "l">>,
              <<"P", "l", "a", "n">>,
              <<"D", "e", "s", "i", " ", "g", "n">>,
              <<"A", "r", "c", "h", "i", "t", "e", "c", "t", "u", "r">>}

CourseCells == {Str(n) : n \in ArchNames \cup TechNames} \cup {NaN}

\* the tables of at most n rows whose rows are drawn from rowCells, with the
\* index labels 0, 1, ... pandas gives
RECURSIVE RowSeqs(_, _)
RowSeqs(rowCells, n) ==
    IF n = 0 THEN {<<>>}
    ELSE LET shorter == RowSeqs(rowCells, n - 1)
         IN  shorter \cup
             {Append(rows, Row(Len(rows), cells)) :
                  rows \in {r \in shorter : Len(r) = n - 1}, cells \in rowCells}

Tables(columns, rowCells, n) == {DataFrame(columns, rows) : rows \in RowSeqs(rowCells, n)}

\* no function has been called yet
NoCall == [op |-> "none"]

InitCalls ==
    /\ pc = "start"
    /\ heap = NoHeap
    /\ loaded = NoTable
    /\ passedIn = NoTable
    /\ call = NoCall

(* --------------- calling calculate_chances on any ranks --------------- *)


\* the ranks of the documented example (opening 500, closing 1000, user 750)
\* next to the small ranks
Ranks == (1..MaxRank) \cup {500, 750, 1000}

\* a row is scored for a user rank
Calculate ==
    /\ pc = "start"
    /\ pc' = "returned"
    /\ \E r \in Ranks, o \in Ranks, c \in Ranks :
        call' = [op |-> "calculate_chances", user_rank |-> r,
                 opening_rank |-> o, closing_rank |-> c,
                 ret |-> calculate_chances(r, o, c)]
    /\ UNCHANGED <<heap, loaded, passedIn>>

\* the same row is scored again for a worse (larger) user rank
Recalculate ==
    /\ call.op = "calculate_chances"
    /\ \E r \in Ranks :
        /\ r > call.user_rank
        /\ call' = [call EXCEPT !.user_rank = r,
                                !.ret = calculate_chances(r, call.opening_rank,
                                                          call.closing_rank)]
    /\ UNCHANGED <<pc, heap, loaded, passedIn>>

NextChances == Calculate \/ Recalculate

SpecChances == InitCalls /\ [][NextChances]_vars

Scored == call.op = "calculate_chances"

\* C3 as stated: 90 whenever user_rank <= opening_rank, and 10 whenever
\* user_rank > closing_rank, for all positive ranks.
C3_AsStated ==
    Scored =>
        /\ (call.user_rank <= call.opening_rank => call.ret = Returned(90))
        /\ (call.user_rank > call.closing_rank => call.ret = Returned(10))

\* C3 amended: 90 whenever user_rank <= opening_rank; 10 whenever user_rank
\* is above the closing rank and above the opening rank too.
C3_CapAndFloor ==
    Scored =>
        /\ (call.user_rank <= call.opening_rank => call.ret = Returned(90))
        /\ (call.user_rank > call.closing_rank /\ call.user_rank > call.opening_rank
                => call.ret = Returned(10))

C3_Witness ==
    /\ Scored
    /\ call.user_rank > call.closing_rank
    /\ call.user_rank > call.opening_rank
    /\ call.ret = Returned(10)

\* C4: calculate_chances never divides by zero: it returns a value for every
\* ranks, and with opening = closing = user rank it returns the cap, 90.
C4_NoDivisionByZero ==
    Scored =>
        /\ call.ret.exc = "none"
        /\ (call.user_rank = call.opening_rank /\ call.opening_rank = call.closing_rank
                => call.ret = Returned(90))

C4_Witness ==
    /\ Scored
    /\ call.user_rank = call.opening_rank
    /\ call.opening_rank = call.closing_rank
    /\ call.ret = Returned(90)

\* C5: between the ranks (opening < user <= closing) the chance is
\* 10 + 80*(closing - user)/(closing - opening) cut to an integer (50 for
\* 500, 1000, 750), and for a fixed row the chance never rises as the user
\* rank rises.
C5_InterpolationValue ==
    (Scored /\ call.opening_rank < call.user_rank /\ call.user_rank <= call.closing_rank)
        => /\ call.ret.exc = "none"
           /\ call.ret.value = 10 + (80 * (call.closing_rank - call.user_rank))
                                        \div (call.closing_rank - call.opening_rank)
           /\ (call.opening_rank = 500 /\ call.closing_rank = 1000 /\ call.user_rank = 750
                  => call.ret.value = 50)

C5_NonIncreasing ==
    (/\ Scored
     /\ call'.op = "calculate_chances"
     /\ call'.opening_rank = call.opening_rank
     /\ call'.closing_rank = call.closing_rank
     /\ call'.user_rank >= call.user_rank)
        => call'.ret.value <= call.ret.value

C5_Interpolation == [](C5_InterpolationValue) /\ [][C5_NonIncreasing]_vars

C5_Witness ==
    /\ Scored
    /\ call.opening_rank = 500
    /\ call.closing_rank = 1000
    /\ call.user_rank = 750
    /\ call.ret = Returned(50)

(* ------------- calling classify_colleges on any table ----------------- *)

ClassifyColumns == {"Quota", "Seat Type", "Opening Rank", "Closing Rank"}

ClassifyRowCells ==
    {[c \in ClassifyColumns |->
        IF c = "Quota" THEN q
        ELSE IF c = "Seat Type" THEN s
        ELSE IF c = "Opening Rank" THEN o
        ELSE cl] : q \in Quotas, s \in SeatTypes, o \in RankCells, cl \in RankCells}

\* classify_colleges is handed a table (normalised or not), a rank, a quota
\* and a seat type
Classify ==
    /\ pc = "start"
    /\ pc' = "returned"
    /\ \E df \in Tables(ClassifyColumns, ClassifyRowCells, MaxRows),
       user_rank \in 1..MaxRank, quota \in Quotas, seat_type \in SeatChoices :
        LET out == classify_colleges([NoHeap EXCEPT !["df"] = df], "df",
                                     user_rank, quota, seat_type)
        IN  /\ heap' = out.heap
            /\ call' = [op |-> "classify_colleges", df |-> df, user_rank |-> user_rank,
                        quota |-> quota, seat_type |-> seat_type, exc |-> out.exc]
    /\ UNCHANGED <<loaded, passedIn>>

NextClassify == Classify

SpecClassify == InitCalls /\ [][NextClassify]_vars

Classified == call.op = "classify_colleges"

Buckets == {"ambitious", "moderate", "safe"}

\* the row of a bucket (or of the scored copy) with the index label idx
Returns(bucket, idx) == \E i \in 1..Len(heap[bucket].rows) : heap[bucket].rows[i].idx = idx

Returned_row(bucket, idx) ==
    heap[bucket].rows[CHOOSE i \in 1..Len(heap[bucket].rows) : heap[bucket].rows[i].idx = idx]

BucketsOf(idx) == {b \in Buckets : Returns(b, idx)}

\* the ranks of a row as numbers, NaN when missing or not a number
Opening(row) == to_numeric(row.cells["Opening Rank"])
Closing(row) == to_numeric(row.cells["Closing Rank"])

Ranked(row) == notnull(Opening(row)) /\ notnull(Closing(row))

Selected(row) == row.cells["Quota"] = call.quota /\ row.cells["Seat Type"] = call.seat_type

InputRows == {call.df.rows[i] : i \in 1..Len(call.df.rows)}

\* C1: a row of the selected quota and seat type with opening <= closing is
\* returned in exactly one bucket: ambitious iff closing < user rank, moderate
\* iff opening <= user rank <= closing, safe iff opening > user rank.
C1_OneBucket ==
    Classified =>
        \A row \in InputRows :
            (Selected(row) /\ Ranked(row) /\ Opening(row).v <= Closing(row).v) =>
                /\ call.exc = "none"
                /\ Cardinality(BucketsOf(row.idx)) = 1
                /\ Returns("ambitious", row.idx) <=> Closing(row).v < call.user_rank
                /\ Returns("moderate", row.idx) <=>
                       (Opening(row).v <= call.user_rank /\ call.user_rank <= Closing(row).v)
                /\ Returns("safe", row.idx) <=> Opening(row).v > call.user_rank

C1_Witness ==
    /\ Classified
    /\ \E row \in InputRows :
        /\ Selected(row) /\ Ranked(row)
        /\ Opening(row).v < Closing(row).v
        /\ call.user_rank = Opening(row).v
        /\ BucketsOf(row.idx) = {"moderate"}

\* C2 as stated: every row of the selected quota and seat type with non-null
\* ranks, whatever their order, satisfies exactly one bucket predicate.
C2_AsStated ==
    Classified =>
        \A row \in InputRows :
            (Selected(row) /\ Ranked(row)) => Cardinality(BucketsOf(row.idx)) = 1

\* C6 as stated: a row whose opening or closing rank is missing or not a
\* number is in none of the three buckets, its Chance is 0 and nothing raises.
C6_AsStated ==
    Classified =>
        \A row \in InputRows :
            ~Ranked(row) =>
                /\ call.exc = "none"
                /\ BucketsOf(row.idx) = {}
                /\ Returned_row("copy", row.idx).cells["Chance"] = Num(0)

\* C10: for a returned row with opening <= closing, Deviation is user rank
\* minus closing rank; ambitious rows have Deviation > 0 and Chance 10, safe
\* rows Deviation < 0 and Chance 90, moderate rows Deviation <= 0 and a Chance
\* in 10..90 that is 90 only when user rank = opening rank.
C10_DerivedFields ==
    Classified =>
        \A row \in InputRows : \A b \in BucketsOf(row.idx) :
            (Ranked(row) /\ Opening(row).v <= Closing(row).v) =>
                LET out == Returned_row(b, row.idx)
                    deviation == out.cells["Deviation"]
                    chance == out.cells["Chance"]
                IN  /\ deviation = Num(call.user_rank - Closing(row).v)
                    /\ chance.k = "num"
                    /\ b = "ambitious" => (deviation.v > 0 /\ chance.v = 10)
                    /\ b = "safe" => (deviation.v < 0 /\ chance.v = 90)
                    /\ b = "moderate" =>
                          /\ deviation.v <= 0
                          /\ chance.v \in 10..90
                          /\ (chance.v = 90 => call.user_rank = Opening(row).v)

C10_Witness ==
    /\ Classified
    /\ \E row \in InputRows :
        /\ Ranked(row)
        /\ Opening(row).v < call.user_rank
        /\ call.user_rank < Closing(row).v
        /\ Returns("moderate", row.idx)
        /\ Returned_row("moderate", row.idx).cells["Chance"] = Num(50)
        /\ Returned_row("moderate", row.idx).cells["Deviation"] = Num(-1)

(* --------------- calling filter_courses on any table ------------------ *)

CourseColumns == {"College Name", "Course Name"}

CourseRowCells ==
    {[c \in CourseColumns |-> IF c = "College Name" THEN IIT ELSE course] :
        course \in CourseCells}

\* both selections of filter_courses over one table: the architecture one,
\* and the one any other selector gives
FilterCourses ==
    /\ pc = "start"
    /\ pc' = "returned"
    /\ \E df \in Tables(CourseColumns, CourseRowCells, MaxCourseRows),
          other \in {"B.Tech", "B.Plan"} :
        call' = [op |-> "filter_courses", df |-> df, course_type |-> other,
                 arch |-> filter_courses(df, "B.Plan / B.Arch"),
                 tech |-> filter_courses(df, other)]
    /\ UNCHANGED <<heap, loaded, passedIn>>

NextFilter == FilterCourses

SpecFilter == InitCalls /\ [][NextFilter]_vars

Filtered == call.op = "filter_courses"

RowsOf(df) == {df.rows[i] : i \in 1..Len(df.rows)}

\* the rows of a selection come in the order of the table they are taken from
InOrder(df) == \A i, j \in 1..Len(df.rows) : i < j => df.rows[i].idx < df.rows[j].idx

\* C9: the architecture selection is exactly the rows whose course name holds
\* planning, architecture or design in any letter case, the other selection
\* exactly the rows holding none (a missing name holds none); each row is in
\* exactly one of the two, with its contents unchanged.
C9_CoursePartition ==
    Filtered =>
        /\ RowsOf(call.arch) =
              {row \in RowsOf(call.df) :
                  \E name \in ArchNames : row.cells["Course Name"] = Str(name)}
        /\ RowsOf(call.tech) =
              {row \in RowsOf(call.df) :
                  \/ row.cells["Course Name"] = NaN
                  \/ \E name \in TechNames : row.cells["Course Name"] = Str(name)}
        /\ RowsOf(call.arch) \cap RowsOf(call.tech) = {}
        /\ RowsOf(call.arch) \cup RowsOf(call.tech) = RowsOf(call.df)
        /\ Len(call.arch.rows) + Len(call.tech.rows) = Len(call.df.rows)
        /\ InOrder(call.arch) /\ InOrder(call.tech)
        /\ call.arch.columns = call.df.columns
        /\ call.tech.columns = call.df.columns

C9_Witness ==
    /\ Filtered
    /\ Len(call.df.rows) = 2
    /\ call.df.rows[1].cells["Course Name"] = NaN
    /\ call.df.rows[2].cells["Course Name"] = Str(<<"B", ".", "P", "L", "A", "N", "N", "I", "N", "G">>)
    /\ call.tech.rows = <<call.df.rows[1]>>
    /\ call.arch.rows = <<call.df.rows[2]>>

(* ------------- calling preprocess_dataframe on any sheet -------------- *)

SheetColumns == {"Institute", "Gender", "Opening Rank", "Closing Rank", "Unnamed: 0"}

SheetRankCells == {NaN, Str(<<"2", "P">>)} \cup {Num(n) : n \in 1..MaxRank}

SheetRowCells ==
    {[c \in SheetColumns |->
        IF c = "Institute" THEN IIT
        ELSE IF c = "Gender" THEN g
        ELSE IF c = "Opening Rank" THEN o
        ELSE IF c = "Closing Rank" THEN cl
        ELSE u] : g \in {NaN, FEMALE}, o \in SheetRankCells, cl \in SheetRankCells,
                  u \in {NaN, Str(<<"x">>)}}

Sheets == Tables(SheetColumns, SheetRowCells, MaxSheetRows)

\* ranpredictor.py's normaliser over a sheet, and over its own result
Preprocess ==
    /\ pc = "start"
    /\ pc' = "returned"
    /\ \E df \in Sheets :
        LET once == preprocess_dataframe(df)
        IN  call' = [op |-> "preprocess_dataframe", df |-> df, once |-> once,
                     twice |-> IF once.exc = "none" THEN preprocess_dataframe(once.df)
                               ELSE once]
    /\ UNCHANGED <<heap, loaded, passedIn>>

\* rankingtool.py's normaliser over a sheet, and over its own result
PreprocessRankingTool ==
    /\ pc = "start"
    /\ pc' = "returned"
    /\ \E df \in Sheets :
        LET once == preprocess_dataframe_rankingtool(df)
        IN  call' = [op |-> "preprocess_dataframe_rankingtool", df |-> df, once |-> once,
                     twice |-> IF once.exc = "none"
                               THEN preprocess_dataframe_rankingtool(once.df)
                               ELSE once]
    /\ UNCHANGED <<heap, loaded, passedIn>>

NextPreprocess == Preprocess \/ PreprocessRankingTool

SpecPreprocess == InitCalls /\ [][NextPreprocess]_vars

\* C7 as stated: for every input table, preprocess_dataframe applied twice
\* yields the same columns and the same rows as applied once.
C7_AsStated ==
    call.op \in {"preprocess_dataframe", "preprocess_dataframe_rankingtool"} =>
        (call.once.exc = "none" =>
            /\ call.twice.exc = "none"
            /\ call.twice.df = call.once.df)

\* rankingtool.py's normaliser alone is idempotent
RankingToolIdempotent ==
    call.op = "preprocess_dataframe_rankingtool" =>
        /\ call.once.exc = "none"
        /\ call.twice = [call.once EXCEPT !.arg = call.once.df]

(* ------------------------- load_data and main ------------------------- *)

\* the rows of a frame over a wider set of columns: a cell the frame lacks is NaN
Widened(df, columns) ==
    [i \in 1..Len(df.rows) |->
        Row(df.rows[i].idx,
            [c \in columns |-> IF c \in df.columns THEN df.rows[i].cells[c] ELSE NaN])]

\* the rows of the first n frames, in order
RECURSIVE Joined(_, _, _)
Joined(frames, columns, n) ==
    IF n = 0 THEN <<>>
    ELSE Joined(frames, columns, n - 1) \o Widened(frames[n], columns)

\* pd.concat(frames): the union of the columns, the rows in order;
\* ignore_index renumbers the index labels from 0
concat(frames, ignore_index) ==
    LET columns == UNION {frames[f].columns : f \in 1..Len(frames)}
        rows == Joined(frames, columns, Len(frames))
    IN  DataFrame(columns,
                  IF ignore_index
                  THEN [i \in 1..Len(rows) |-> Row(i - 1, rows[i].cells)]
                  ELSE rows)

\* df.assign(Category=value): a new DataFrame with one more column
assign_Category(df, value) ==
    SetColumn(df, "Category", [i \in 1..Len(df.rows) |-> value])

\* load_data's body: both sheets read, joined and normalised
load_data(df_2023, df_2024) == preprocess_dataframe(concat(<<df_2023, df_2024>>, TRUE))

\* series.unique(), the options of a select box; a box without options
\* gives None, which equals no cell
unique(df, label) ==
    IF df.rows = <<>> THEN {NaN} ELSE {df.rows[i].cells[label] : i \in 1..Len(df.rows)}

\* the display code of one bucket: two display columns are added to the
\* bucket when it has rows
Display(h, bucket) ==
    IF empty(h[bucket]) THEN h
    ELSE [h EXCEPT ![bucket] =
             SetColumn(SetColumn(h[bucket], "Chance (%)", Series(h[bucket], "Chance")),
                       "Deviation from Last Year Cutoff", Series(h[bucket], "Deviation"))]

\* the part of main every run of the script executes once the data is
\* loaded: the names of the last run are gone, the memoized table is bound
\* again and the course filter makes the table of this run
main_filter(h, course_type) ==
    [NoHeap EXCEPT !["cache"] = h["cache"],
                   !["df"] = filter_courses(h["cache"], course_type)]

\* lines 186-190: the three buckets, labelled, joined for the download
Download(h) ==
    [h EXCEPT !["result_df"] =
        concat(<<assign_Category(h["safe"], Str(<<"S", "a", "f", "e">>)),
                 assign_Category(h["moderate"],
                                 Str(<<"M", "o", "d", "e", "r", "a", "t", "e">>)),
                 assign_Category(h["ambitious"],
                                 Str(<<"A", "m", "b", "i", "t", "i", "o", "u", "s">>))>>,
               FALSE)]

\* lines 160-193 on what classify_colleges returned
ShowResults(out) ==
    IF out.exc # "none" THEN out
    ELSE [exc |-> "none",
          heap |-> Download(Display(Display(Display(out.heap, "safe"), "moderate"),
                                    "ambitious"))]

\* the body of `if st.button('Predict Colleges')`, on the heap main_filter left
main_predict(h, user_rank, quota, seat_type) ==
    ShowResults(classify_colleges(h, "df", user_rank, quota, seat_type))

\* the same with the rank field left empty (user_rank is None): scoring the
\* first row raises a TypeError after the argument was coerced and copied;
\* a table without rows is never scored and gives three empty buckets
main_predict_no_rank(h, quota, seat_type) ==
    IF h["df"].rows = <<>>
    THEN main_predict(h, 1, quota, seat_type)
    ELSE [exc |-> "TypeError", heap |-> DataFrame_copy(CoerceRanks(h, "df"), "df").heap]

FileColumns == {"Institute", "Academic Program Name", "Quota", "Seat Type", "Gender",
                "Opening Rank", "Closing Rank", "Unnamed: 7"}

FileRow(course, quota, opening, closing) ==
    [c \in FileColumns |->
        IF c = "Institute" THEN IIT
        ELSE IF c = "Academic Program Name" THEN course
        ELSE IF c = "Quota" THEN quota
        ELSE IF c = "Seat Type" THEN OPEN
        ELSE IF c = "Gender" THEN FEMALE
        ELSE IF c = "Opening Rank" THEN opening
        ELSE IF c = "Closing Rank" THEN closing
        ELSE NaN]

ARCHITECTURE_COURSE == Str(<<"A", "r", "c", "h", "i", "t", "e", "c", "t", "u", "r", "e">>)
CIVIL_COURSE == Str(<<"C", "i", "v", "i", "l">>)

FileRowCells ==
    {FileRow(course, quota, opening, closing) :
        course \in {ARCHITECTURE_COURSE, CIVIL_COURSE},
        quota \in Quotas,
        opening \in {Str(<<"2", "P">>), Num(1), Num(2)},
        closing \in {NaN, Num(1), Num(MaxRank)}}

\* the 2023 sheet: any rows; the 2024 sheet: no row, or one regular row
Files2023 == Tables(FileColumns, FileRowCells, MaxFileRows)

Files2024 ==
    {DataFrame(FileColumns, <<>>),
     DataFrame(FileColumns, <<Row(0, FileRow(CIVIL_COURSE, AI, Num(1), Num(MaxRank)))>>)}

\* the first run of the script: load_data reads and normalises the sheets and
\* its result is memoized; an exception ends the run and memoizes nothing
LoadData ==
    /\ pc = "start"
    /\ \E df_2023 \in Files2023, df_2024 \in Files2024 :
        LET out == load_data(df_2023, df_2024)
        IN  IF out.exc = "none"
            THEN /\ pc' = "loaded"
                 /\ heap' = [NoHeap EXCEPT !["cache"] = out.df]
                 /\ loaded' = out.df
                 /\ passedIn' = NoTable
            ELSE /\ pc' = out.exc
                 /\ UNCHANGED <<heap, loaded, passedIn>>
    /\ UNCHANGED call

Running == pc \in {"loaded", "shown", "predicted", "TypeError"}

\* a widget changes and the script runs again without Predict being pressed
Rerun ==
    /\ Running
    /\ \E course_type \in {"B.Tech", "B.Plan / B.Arch"} :
        /\ heap' = main_filter(heap, course_type)
        /\ passedIn' = NoTable
        /\ pc' = "shown"
    /\ UNCHANGED <<loaded, call>>

\* Predict is pressed with a rank entered
Predict ==
    /\ Running
    /\ \E course_type \in {"B.Tech", "B.Plan / B.Arch"}, user_rank \in 1..MaxRank,
          quota \in unique(heap["cache"], "Quota"),
          seat_type \in unique(heap["cache"], "Seat Type") :
        LET filtered == main_filter(heap, course_type)
            out == main_predict(filtered, user_rank, quota, seat_type)
        IN  /\ heap' = out.heap
            /\ passedIn' = filtered["df"]
            /\ pc' = IF out.exc = "none" THEN "predicted" ELSE out.exc
    /\ UNCHANGED <<loaded, call>>

\* Predict is pressed with the rank field empty
PredictWithoutRank ==
    /\ Running
    /\ \E course_type \in {"B.Tech", "B.Plan / B.Arch"},
          quota \in unique(heap["cache"], "Quota"),
          seat_type \in unique(heap["cache"], "Seat Type") :
        LET filtered == main_filter(heap, course_type)
            out == main_predict_no_rank(filtered, quota, seat_type)
        IN  /\ heap' = out.heap
            /\ passedIn' = filtered["df"]
            /\ pc' = IF out.exc = "none" THEN "predicted" ELSE out.exc
    /\ UNCHANGED <<loaded, call>>

Next == LoadData \/ Rerun \/ Predict \/ PredictWithoutRank

Spec == InitCalls /\ [][Next]_vars

DerivedColumns == {"Chance", "Deviation", "Chance (%)", "Deviation from Last Year Cutoff",
                   "Category"}

\* C8: after any sequence of Predict actions the memoized table and the table
\* passed into classify_colleges are as they were: no column added, no cell
\* changed; the derived columns are on copies only.
C8_SourceTablesUnchanged ==
    pc \in {"predicted", "TypeError"} =>
        /\ heap["cache"] = loaded
        /\ heap["df"] = passedIn
        /\ heap["cache"].columns \cap DerivedColumns = {}
        /\ heap["df"].columns \cap DerivedColumns = {}

C8_Witness ==
    /\ pc = "predicted"
    /\ heap["cache"] = loaded
    /\ heap["df"] = passedIn
    /\ Len(passedIn.rows) = 2
    /\ "Chance (%)" \in heap["moderate"].columns
    /\ "Chance (%)" \in heap["ambitious"].columns
    /\ Len(heap["result_df"].rows) = 2

====
